---- MODULE Spec2Model ----
(***************************************************************************)
(* Model of BlockchainEvidenceLedger (src/utils/blockchain_evidence.py).   *)
(*                                                                         *)
(* Strings are sequences of tokens.  A token is a tuple: <<c>> is the      *)
(* character (or indivisible run of characters) c, and <<"sha256", s>> is  *)
(* the 64-character hex digest of the string s.  SHA-256 is modelled as a  *)
(* collision-free digest: two digests are equal exactly when the hashed    *)
(* strings are equal.                                                      *)
(*                                                                         *)
(* Python list positions are 0-based: chain[i] of the source is            *)
(* chain[i + 1] here; the operator At(c, i) hides the shift.               *)
(***************************************************************************)
EXTENDS Integers, Sequences, FiniteSets, TLC

(* ------------------------------ bounds --------------------------------- *)

\* largest number of blocks the chain may hold (genesis included)
MaxBlocks == 4
\* largest reading of the clock, in microseconds after midnight
MaxTime == 1
\* largest number of blocks of a chain that is tampered with
TamperMaxBlocks == 3
\* largest number of blocks of a chain that concurrent callers append to
ConcMaxBlocks == 3
\* largest length a caller's witnesses list grows to while a call is running
MaxWitnesses == 2
\* largest number of blocks of a ledger whose blocks are passed to verify_block
VerifyMaxBlocks == 2
\* largest number of blocks of a chain whose hash entries are overwritten
CorruptMaxBlocks == 3
\* largest number of blocks of a ledger that reports are drawn from
ReportMaxBlocks == 4
\* largest number of blocks of a chain that is scanned while callers append
ScanMaxBlocks == 3
\* largest number of items of an evidence dict passed to calculate_hash
MaxItems == 2
\* largest number of blocks of a ledger that is offered unserializable data
SerialMaxBlocks == 3
\* largest number of blocks of a ledger whose callers keep the lists they passed
AliasMaxBlocks == 3
\* largest number of blocks of a chain a block of which is replaced and rehashed
RehashMaxBlocks == 3
\* number of blocks of DarkWebIntelligence.evidence_chain from which on no scan is started
DarkMaxBlocks == 4

(* ------------------------------ strings -------------------------------- *)

Tok(c) == <<c>>

\* a Python string literal, kept as one indivisible token
S(c) == <<Tok(c)>>

DigitChar == <<"0", "1", "2", "3", "4", "5", "6", "7", "8", "9">>

\* str(n) of a non-negative integer, one token per digit
RECURSIVE Digits(_)
Digits(n) ==
    IF n < 10 THEN <<Tok(DigitChar[n + 1])>>
    ELSE Digits(n \div 10) \o <<Tok(DigitChar[(n % 10) + 1])>>

\* n written with exactly w digits (the %06d of isoformat's microseconds)
RECURSIVE Pad(_, _)
Pad(n, w) ==
    IF w = 0 THEN <<>>
    ELSE Pad(n \div 10, w - 1) \o <<Tok(DigitChar[(n % 10) + 1])>>

\* datetime.isoformat() of the instant t microseconds after the clock base:
\* the fraction is left out when the microsecond field is zero
IsoFormat(t) ==
    <<Tok("2"), Tok("0"), Tok("2"), Tok("6"), Tok("-11-04T00:00:00")>>
        \o (IF t % 1000000 = 0 THEN <<>> ELSE <<Tok(".")>> \o Pad(t % 1000000, 6))

DigestHexLen == 64

\* hashlib.sha256(s.encode()).hexdigest()
Sha256(s) == << <<"sha256", s>> >>

\* number of characters of a hash-valued string
RECURSIVE HexLen(_)
HexLen(h) ==
    IF h = <<>> THEN 0
    ELSE (IF Len(Head(h)) = 2 THEN DigestHexLen ELSE 1) + HexLen(Tail(h))

\* a sentinel of half the digest length
SentinelShort == [i \in 1..32 |-> Tok("0")]

\* '0' * 64
Sentinel == [i \in 1..64 |-> Tok("0")]

(* ------------------------------- dicts --------------------------------- *)

EmptyDict == <<>>

\* d.get(k, default)
Get(d, k, default) == IF k \in DOMAIN d THEN d[k] ELSE default

\* every key of every dict that is serialised, in the order sort_keys gives
SortedKeys ==
    <<"agency", "agent_mentions", "attachments", "case_id", "collecting_officer",
      "content", "currency", "date_found", "description", "digital_signature",
      "evidence", "evidence_type", "filename", "hash", "hash_evidence",
      "location", "matched_keywords", "metadata", "previous_hash", "price",
      "public_key", "purpose", "severity", "signature", "signature_method",
      "signing_authority", "source", "text", "text_content", "threat_level",
      "threat_score", "timestamp", "timestamp_collected", "timestamp_signed",
      "title", "type", "witnesses">>

DictKeys == {"digital_signature", "metadata", "evidence"}
StrListKeys == {"witnesses", "agent_mentions", "matched_keywords"}
IntKeys == {"threat_score"}
DictListKeys == {"attachments"}

JsonString(s) == <<Tok("\"")>> \o s \o <<Tok("\"")>>

RECURSIVE JsonDumps(_)
RECURSIVE JsonValue(_, _)
RECURSIVE JsonItems(_, _)
RECURSIVE JsonList(_, _)

\* the items of a list under key k, joined by ", "
JsonList(k, l) ==
    IF l = <<>> THEN <<>>
    ELSE (IF k \in DictListKeys THEN JsonDumps(Head(l)) ELSE JsonString(Head(l)))
         \o (IF Tail(l) = <<>> THEN <<>> ELSE <<Tok(", ")>> \o JsonList(k, Tail(l)))

\* the JSON text of the value stored under key k
JsonValue(k, v) ==
    IF k \in DictKeys THEN JsonDumps(v)
    ELSE IF k \in StrListKeys \cup DictListKeys
         THEN <<Tok("[")>> \o JsonList(k, v) \o <<Tok("]")>>
         ELSE IF k \in IntKeys THEN Digits(v)
              ELSE JsonString(v)

\* "key": value of the keys ks of d, joined by ", "
JsonItems(d, ks) ==
    IF ks = <<>> THEN <<>>
    ELSE JsonString(S(Head(ks))) \o <<Tok(": ")>> \o JsonValue(Head(ks), d[Head(ks)])
         \o (IF Tail(ks) = <<>> THEN <<>> ELSE <<Tok(", ")>> \o JsonItems(d, Tail(ks)))

\* json.dumps(d, sort_keys=True)
JsonDumps(d) ==
    <<Tok("{")>>
        \o JsonItems(d, SelectSeq(SortedKeys, LAMBDA k : k \in DOMAIN d))
        \o <<Tok("}")>>

(* ------------------------------ hashing -------------------------------- *)

\* calculate_hash: the string that is hashed
\* a block string that leaves previous_hash out
BlockStringNoLink(index, timestamp, evidence, previous_hash) ==
    Digits(index) \o timestamp \o JsonDumps(evidence)

\* block_string of line 38
BlockString(index, timestamp, evidence, previous_hash) ==
    Digits(index) \o timestamp \o JsonDumps(evidence) \o previous_hash

CalculateHash(index, timestamp, evidence, previous_hash) ==
    Sha256(BlockString(index, timestamp, evidence, previous_hash))

\* _create_digital_signature, signed at clock reading ts
CreateDigitalSignature(evidence_data, ts) ==
    [signature_method |-> S("SHA256-RSA (Simulated)"),
     signature |-> Sha256(JsonDumps(evidence_data)),
     signing_authority |-> S("SENTINEL-X Digital Evidence System"),
     timestamp_signed |-> IsoFormat(ts),
     public_key |-> S("MIIBIjANBgkqhkiG9w0BAQEFAAOCAQ8AMIIBCgKCAQEA...")]

\* _hash_evidence_content
HashEvidenceContent(evidence_data) ==
    Sha256(JsonDumps(
        [text_content |-> Get(evidence_data, "text", <<>>),
         metadata |-> Get(evidence_data, "metadata", EmptyDict),
         timestamp |-> Get(evidence_data, "timestamp", <<>>),
         source |-> Get(evidence_data, "source", <<>>)]))

\* _hash_file
HashFile(content) == Sha256(content)

(* ------------------------------- blocks -------------------------------- *)

\* chain[i] of the source (0-based)
At(c, i) == c[i + 1]

\* chain[0] read where chain[-1] is meant
PreviousBlockFirst(c) == c[1]

\* chain[-1], line 70
PreviousBlock(c) == c[Len(c)]

\* the evidence dict of the genesis block, lines 25-30
GenesisEvidence ==
    [description |-> S("Genesis Block - SENTINEL-X Evidence Chain Initialization"),
     case_id |-> S("GENESIS-2024-001"),
     agency |-> S("National Cyber Security Coordinator"),
     purpose |-> S("Initialize tamper-proof evidence ledger")]

\* a genesis block numbered 1
GenesisBlockIndexOne(t0, t1) ==
    [index |-> 1,
     timestamp |-> IsoFormat(t0),
     evidence |-> GenesisEvidence,
     previous_hash |-> Sentinel,
     hash |-> CalculateHash(1, IsoFormat(t1), EmptyDict, Sentinel)]

\* initialize_genesis_block: the literal reads the clock twice, t0 for the
\* stored timestamp and t1 for the hashed one, and hashes an empty dict
GenesisBlock(t0, t1) ==
    [index |-> 0,
     timestamp |-> IsoFormat(t0),
     evidence |-> GenesisEvidence,
     previous_hash |-> Sentinel,
     hash |-> CalculateHash(0, IsoFormat(t1), EmptyDict, Sentinel)]

\* the attachments list of lines 60-67
RECURSIVE Attachments(_)
Attachments(atts) ==
    IF atts = <<>> THEN <<>>
    ELSE <<[filename |-> Head(atts).filename,
            hash |-> HashFile(Get(Head(atts), "content", <<>>)),
            type |-> Get(Head(atts), "type", S("text/plain"))]>>
         \o Attachments(Tail(atts))

\* evidence_metadata of lines 44-67; tc and ts are the clock readings of
\* line 47 and of _create_digital_signature
EvidenceMetadata(evidence_data, case_id, agency, tc, ts) ==
    LET base ==
            [case_id |-> case_id,
             agency |-> agency,
             timestamp_collected |-> Get(evidence_data, "timestamp", IsoFormat(tc)),
             evidence_type |-> Get(evidence_data, "type", S("Digital Threat Intelligence")),
             severity |-> Get(evidence_data, "threat_level", S("UNKNOWN")),
             location |-> Get(evidence_data, "location", S("Unknown")),
             description |-> Get(evidence_data, "description", <<>>),
             digital_signature |-> CreateDigitalSignature(evidence_data, ts),
             witnesses |-> Get(evidence_data, "witnesses", <<>>),
             collecting_officer |-> Get(evidence_data, "collecting_officer", S("SENTINEL-X AI System")),
             hash_evidence |-> HashEvidenceContent(evidence_data)]
    IN  IF "attachments" \in DOMAIN evidence_data
        THEN base @@ ("attachments" :> Attachments(evidence_data.attachments))
        ELSE base

\* a new block that takes over the index of previous_block
NewBlockStaleIndex(previous_block, evidence_metadata, tn) ==
    LET new_index == previous_block.index
        new_timestamp == IsoFormat(tn)
    IN  [index |-> new_index,
         timestamp |-> new_timestamp,
         evidence |-> evidence_metadata,
         previous_hash |-> previous_block.hash,
         hash |-> CalculateHash(new_index, new_timestamp, evidence_metadata,
                                previous_block.hash)]

\* new_block of lines 71-81, built on previous_block at clock reading tn
NewBlock(previous_block, evidence_metadata, tn) ==
    LET new_index == previous_block.index + 1
        new_timestamp == IsoFormat(tn)
    IN  [index |-> new_index,
         timestamp |-> new_timestamp,
         evidence |-> evidence_metadata,
         previous_hash |-> previous_block.hash,
         hash |-> CalculateHash(new_index, new_timestamp, evidence_metadata,
                                previous_block.hash)]

\* verify_block without the index continuity check
VerifyBlockNoIndexCheck(block, previous_block) ==
    IF block.previous_hash # previous_block.hash THEN FALSE
    ELSE IF block.hash # CalculateHash(block.index, block.timestamp,
                                       block.evidence, block.previous_hash)
         THEN FALSE
         ELSE TRUE

\* verify_block
VerifyBlock(block, previous_block) ==
    IF block.index # previous_block.index + 1 THEN FALSE
    ELSE IF block.previous_hash # previous_block.hash THEN FALSE
    ELSE IF block.hash # CalculateHash(block.index, block.timestamp,
                                       block.evidence, block.previous_hash)
         THEN FALSE
         ELSE TRUE

\* the positions i in 1..len(c)-1 at which verify_block(c[i], c[i-1]) fails
FailingBlocks(c) ==
    {i \in 1..(Len(c) - 1) : ~VerifyBlock(At(c, i), At(c, i - 1))}

Min(s) == CHOOSE x \in s : \A y \in s : x <= y

\* what verify_chain returns when the loop finds block i failing
Compromised(i) ==
    [status |-> "COMPROMISED",
     message |-> S("Chain compromised at block #") \o Digits(i),
     compromised_block |-> i]

\* what verify_chain returns after the loop: both len(self.chain) are read
\* when the dict is built
Verified(c) ==
    [status |-> "VALID",
     message |-> S("Blockchain integrity verified for ") \o Digits(Len(c)) \o S(" blocks"),
     total_blocks |-> Len(c)]

\* the loop of lines 122-134 from position i on, over range(1, n)
RECURSIVE ScanChain(_, _, _)

\* a loop that remembers the failing position and keeps going, so that the
\* last failing one is reported
ScanChainKeepsGoing(c, i, n) ==
    LET failing == {k \in i..(n - 1) : ~VerifyBlock(At(c, k), At(c, k - 1))}
    IN  IF failing = {} THEN Verified(c)
        ELSE Compromised(CHOOSE k \in failing : \A l \in failing : l <= k)

\* a scan that looks at the last pair only
ScanChainLastPair(c, i, n) ==
    IF ~VerifyBlock(At(c, n - 1), At(c, n - 2)) THEN Compromised(n - 1)
    ELSE Verified(c)

ScanChain(c, i, n) ==
    IF i >= n THEN Verified(c)
    ELSE IF ~VerifyBlock(At(c, i), At(c, i - 1)) THEN Compromised(i)
    ELSE ScanChain(c, i + 1, n)

\* verify_chain
VerifyChain(c) ==
    IF Len(c) = 0 THEN
        [status |-> "EMPTY", message |-> S("Chain is empty")]
    ELSE IF Len(c) = 1 THEN
        [status |-> "VALID", message |-> S("Only genesis block exists")]
    ELSE ScanChain(c, 1, Len(c))

(* -------------------------------- state -------------------------------- *)

Threads == {1, 2}

VARIABLES
    chain,      \* self.chain, the list of blocks
    now,        \* the last reading of datetime.datetime.now()
    calls,      \* number of add_evidence calls that returned a block
    pc,         \* pc[t]: where caller t stands inside add_evidence
    frame,      \* frame[t]: the locals of caller t's add_evidence call
    outcome,    \* outcome[t]: how caller t's last add_evidence call ended
    tampered,   \* position of the block whose evidence was rewritten, or -1
    reader,     \* the read-only call that runs or ran last: its name, its
                \* arguments, its locals and what it returned
    alerts,     \* AlertSystem: self.alerts
    sample_dark_web_data,   \* DarkWebIntelligence: self.sample_dark_web_data
    evidence_chain,         \* DarkWebIntelligence: self.evidence_chain
    returned    \* what the last call on one of these two objects returned

\* the state of the objects next to the ledger
others == <<alerts, sample_dark_web_data, evidence_chain, returned>>

vars == <<chain, now, calls, pc, frame, outcome, tampered, reader, others>>

\* the evidence_data dicts callers pass: one with severity and text, one with
\* witnesses, a location, a type and an attachment
EvidenceInputs ==
    <<[threat_level |-> S("HIGH"), description |-> S("d1"), text |-> S("t1")],
      [witnesses |-> <<S("w1")>>, location |-> S("Delhi"), type |-> S("Post"),
       attachments |-> <<[filename |-> S("f.txt"), content |-> S("c")]>>]>>

CaseIds == {S("A"), S("B")}
Agencies == {S("NIA")}

\* DarkWebIntelligence._generate_sample_data for an object made at the clock
\* base: the five literal findings, date_found kept as the text str() gives
GenerateSampleData ==
    <<[source |-> S("Dread Forum"),
       title |-> S("Indian Agent Data for Sale - \\u20b950,000"),
       content |-> S("Selling personal details of 10 Indian intelligence agents. Includes addresses, family info, and routines."),
       price |-> S("$6,000"), currency |-> S("Bitcoin"),
       date_found |-> S("2026-11-02 00:00:00"),
       threat_level |-> S("CRITICAL"),
       agent_mentions |-> <<S("Agent X"), S("Officer Sharma"), S("Field Agent 7")>>],
      [source |-> S("Telegram Secret Chats"),
       title |-> S("Mumbai Attack Planning"),
       content |-> S("Discussing potential targets in South Mumbai. Need local support."),
       price |-> S("N/A"), currency |-> S("N/A"),
       date_found |-> S("2026-11-03 00:00:00"),
       threat_level |-> S("HIGH"),
       agent_mentions |-> <<S("Local informants needed")>>],
      [source |-> S("Intel Exchange"),
       title |-> S("Government Database Access"),
       content |-> S("Selling access to state police database. Contains investigation files."),
       price |-> S("$15,000"), currency |-> S("Monero"),
       date_found |-> S("2026-11-03 12:00:00"),
       threat_level |-> S("HIGH"),
       agent_mentions |-> <<S("Police database"), S("Investigation files")>>],
      [source |-> S("WhatsApp Encrypted Groups"),
       title |-> S("Border Crossing Plans"),
       content |-> S("Planning illegal border crossing next week. Need fake documents."),
       price |-> S("N/A"), currency |-> S("N/A"),
       date_found |-> S("2026-11-03 18:00:00"),
       threat_level |-> S("MEDIUM"),
       agent_mentions |-> <<S("Border security details")>>],
      [source |-> S("Darknet Live"),
       title |-> S("Weapons Delivery in Delhi"),
       content |-> S("Arms delivery scheduled for next Friday. Meeting at designated location."),
       price |-> S("$25,000"), currency |-> S("Bitcoin"),
       date_found |-> S("2026-11-03 21:00:00"),
       threat_level |-> S("CRITICAL"),
       agent_mentions |-> <<S("Delhi drop point")>>]>>

\* no read-only call has been made
NoCall == [op |-> "none"]

NoFrame == [evidence_data |-> EmptyDict, evidence_metadata |-> EmptyDict,
            previous_block |-> 0, new_block |-> EmptyDict]

\* __init__: an empty chain, then initialize_genesis_block appends block 0
Init ==
    \E t0 \in 0..MaxTime, t1 \in 0..MaxTime :
        /\ t0 <= t1
        /\ chain = <<GenesisBlock(t0, t1)>>
        /\ now = t1
        /\ calls = 0
        /\ pc = [t \in Threads |-> "idle"]
        /\ frame = [t \in Threads |-> NoFrame]
        /\ outcome = [t \in Threads |-> "none"]
        /\ tampered = -1
        /\ reader = NoCall
        /\ alerts = <<>>
        /\ sample_dark_web_data = GenerateSampleData
        /\ evidence_chain = <<>>
        /\ returned = NoCall

\* chain.insert(-1, new_block): the new block lands before the last one
ChainInsertBeforeLast(c, new_block) ==
    SubSeq(c, 1, Len(c) - 1) \o <<new_block, c[Len(c)]>>

\* chain[-1] = new_block: the new block overwrites the last one
ChainReplaceLast(c, new_block) == SubSeq(c, 1, Len(c) - 1) \o <<new_block>>

\* self.chain.append(new_block), line 85
ChainAppend(c, new_block) == Append(c, new_block)

\* add_evidence that verifies new_block but appends a copy stamped with the
\* earlier clock reading ts
AddEvidenceRestamped(evidence_data, case_id, agency, tc, ts, tn) ==
    /\ \A t \in Threads : pc[t] = "idle"
    /\ Len(chain) < MaxBlocks
    /\ now <= tc /\ tc <= ts /\ ts <= tn /\ tn <= MaxTime
    /\ LET evidence_metadata == EvidenceMetadata(evidence_data, case_id, agency, tc, ts)
           previous_block == PreviousBlock(chain)
           new_block == NewBlock(previous_block, evidence_metadata, tn)
       IN  IF VerifyBlock(new_block, previous_block)
           THEN /\ chain' = ChainAppend(chain, [new_block EXCEPT !.timestamp = IsoFormat(ts)])
                /\ calls' = calls + 1
           ELSE UNCHANGED <<chain, calls>>
    /\ now' = tn
    /\ UNCHANGED <<pc, frame, outcome, tampered, reader, others>>

\* add_evidence run from call to return by a single caller; tc, ts and tn
\* are its three readings of the clock (lines 47, 145 and 72)
AddEvidence(evidence_data, case_id, agency, tc, ts, tn) ==
    /\ \A t \in Threads : pc[t] = "idle"
    /\ Len(chain) < MaxBlocks
    /\ now <= tc /\ tc <= ts /\ ts <= tn /\ tn <= MaxTime
    /\ LET evidence_metadata == EvidenceMetadata(evidence_data, case_id, agency, tc, ts)
           previous_block == PreviousBlock(chain)
           new_block == NewBlock(previous_block, evidence_metadata, tn)
       IN  IF VerifyBlock(new_block, previous_block)
           THEN /\ chain' = ChainAppend(chain, new_block)
                /\ calls' = calls + 1
           ELSE UNCHANGED <<chain, calls>>
    /\ now' = tn
    /\ UNCHANGED <<pc, frame, outcome, tampered, reader, others>>

\* sequential use: one call after the other; the clock readings of lines 47
\* and 145 fall in the same microsecond, the one of line 72 may be later
Next ==
    \E i \in 1..Len(EvidenceInputs), case_id \in CaseIds, agency \in Agencies,
       tc \in 0..MaxTime, tn \in 0..MaxTime :
        AddEvidence(EvidenceInputs[i], case_id, agency, tc, tc, tn)

Spec == Init /\ [][Next]_vars

(* ------------------------------ tampering ------------------------------ *)

\* a value of the kind stored under key k that differs from v
TamperedValue(k, v) ==
    IF k \in DictKeys THEN [v EXCEPT !.signature = S("forged")]
    ELSE IF k \in StrListKeys THEN Append(v, S("forged"))
    ELSE IF k \in DictListKeys
         THEN Append(v, [filename |-> S("forged"), hash |-> HashFile(<<>>),
                         type |-> S("text/plain")])
         ELSE v \o S("x")

\* a holder of ledger.chain rewrites field f of chain[k]['evidence'] in place
\* and touches nothing else; it does so once
TamperEvidence(k, f) ==
    /\ tampered = -1
    /\ \A t \in Threads : pc[t] = "idle"
    /\ k \in 0..(Len(chain) - 1)
    /\ f \in DOMAIN At(chain, k).evidence
    /\ chain' = [chain EXCEPT ![k + 1].evidence[f] = TamperedValue(f, @)]
    /\ tampered' = k
    /\ UNCHANGED <<now, calls, pc, frame, outcome, reader, others>>

\* sequential use of a ledger whose stored blocks can be tampered with; every
\* call reads the same instant three times and files under case A
NextTamper ==
    \/ \E i \in 1..Len(EvidenceInputs), t \in 0..MaxTime :
          /\ Len(chain) < TamperMaxBlocks
          /\ AddEvidence(EvidenceInputs[i], S("A"), S("NIA"), t, t, t)
    \/ \E k \in 0..(MaxBlocks - 1), f \in {SortedKeys[j] : j \in 1..Len(SortedKeys)} :
          TamperEvidence(k, f)

SpecTamper == Init /\ [][NextTamper]_vars

(* ------------------------- concurrent callers -------------------------- *)

\* number of add_evidence calls that are running
Running == Cardinality({t \in Threads : pc[t] # "idle"})

\* lines 44-67: caller t enters add_evidence and builds evidence_metadata
CallStep(t, evidence_data, case_id, agency, tc, ts) ==
    /\ pc[t] = "idle"
    /\ Len(chain) + Running < ConcMaxBlocks
    /\ now <= tc /\ tc <= ts /\ ts <= MaxTime
    /\ frame' = [frame EXCEPT ![t] =
            [evidence_data |-> evidence_data,
             evidence_metadata |-> EvidenceMetadata(evidence_data, case_id, agency, tc, ts),
             previous_block |-> 0,
             new_block |-> EmptyDict]]
    /\ pc' = [pc EXCEPT ![t] = "read"]
    /\ outcome' = [outcome EXCEPT ![t] = "none"]
    /\ now' = ts
    /\ UNCHANGED <<chain, calls, tampered, reader, others>>

\* line 70: previous_block refers to the block that is last at this moment
ReadLastStep(t) ==
    /\ pc[t] = "read"
    /\ frame' = [frame EXCEPT ![t].previous_block = Len(chain) - 1]
    /\ pc' = [pc EXCEPT ![t] = "build"]
    /\ UNCHANGED <<chain, now, calls, outcome, tampered, reader, others>>

\* lines 71-81: new_block is built on the block previous_block refers to
BuildStep(t, tn) ==
    /\ pc[t] = "build"
    /\ now <= tn /\ tn <= MaxTime
    /\ frame' = [frame EXCEPT ![t].new_block =
            NewBlock(At(chain, frame[t].previous_block), frame[t].evidence_metadata, tn)]
    /\ pc' = [pc EXCEPT ![t] = "verify"]
    /\ now' = tn
    /\ UNCHANGED <<chain, calls, outcome, tampered, reader, others>>

\* a verification whose result is not looked at
VerifyStepUnchecked(t) ==
    /\ pc[t] = "verify"
    /\ pc' = [pc EXCEPT ![t] = "append"]
    /\ UNCHANGED <<chain, now, calls, frame, outcome, tampered, reader, others>>

\* lines 84 and 89: verify_block(new_block, previous_block) picks the
\* branch; the failing branch raises ValueError at once and the call is over
VerifyStep(t) ==
    /\ pc[t] = "verify"
    /\ IF VerifyBlock(frame[t].new_block, At(chain, frame[t].previous_block))
       THEN /\ pc' = [pc EXCEPT ![t] = "append"]
            /\ UNCHANGED <<frame, outcome>>
       ELSE /\ pc' = [pc EXCEPT ![t] = "idle"]
            /\ outcome' = [outcome EXCEPT ![t] = "raised"]
            /\ frame' = [frame EXCEPT ![t] = NoFrame]
    /\ UNCHANGED <<chain, now, calls, tampered, reader, others>>

\* lines 85-87: the block is appended and returned
AppendStep(t) ==
    /\ pc[t] = "append"
    /\ chain' = ChainAppend(chain, frame[t].new_block)
    /\ calls' = calls + 1
    /\ outcome' = [outcome EXCEPT ![t] = "returned"]
    /\ pc' = [pc EXCEPT ![t] = "idle"]
    /\ frame' = [frame EXCEPT ![t] = NoFrame]
    /\ UNCHANGED <<now, tampered, reader, others>>

\* the steps of caller t's add_evidence calls, filed under case A; the two
\* clock readings of lines 47 and 145 fall in the same microsecond
CallerNext(t) ==
    \/ \E i \in 1..Len(EvidenceInputs), tc \in 0..MaxTime :
          CallStep(t, EvidenceInputs[i], S("A"), S("NIA"), tc, tc)
    \/ ReadLastStep(t)
    \/ \E tn \in 0..MaxTime : BuildStep(t, tn)
    \/ VerifyStep(t)
    \/ AppendStep(t)

\* two callers run add_evidence on the same ledger with no lock
NextConc == \E t \in Threads : CallerNext(t)

SpecConc == Init /\ [][NextConc]_vars

\* line 53 stores the caller's own witnesses list in evidence_metadata, which
\* is the dict new_block['evidence'] refers to: while call t runs, another
\* thread of the caller appends a name to that list
MutateWitnesses(t) ==
    /\ pc[t] # "idle"
    /\ "witnesses" \in DOMAIN frame[t].evidence_data
    /\ Len(frame[t].evidence_data.witnesses) < MaxWitnesses
    /\ frame' = [frame EXCEPT ![t] =
            [evidence_data |->
                [@.evidence_data EXCEPT !.witnesses = Append(@, S("w2"))],
             evidence_metadata |->
                [@.evidence_metadata EXCEPT !.witnesses = Append(@, S("w2"))],
             previous_block |-> @.previous_block,
             new_block |->
                IF pc[t] \in {"verify", "append"}
                THEN [@.new_block EXCEPT !.evidence.witnesses = Append(@, S("w2"))]
                ELSE @.new_block]]
    /\ UNCHANGED <<chain, now, calls, pc, outcome, tampered, reader, others>>

\* one caller runs add_evidence while the list it passed in is written to
NextMut == CallerNext(1) \/ MutateWitnesses(1)

SpecMut == /\ Init
           /\ [][NextMut]_vars

(* ----------------------------- properties ------------------------------ *)

\* C1: after n >= 1 successful add_evidence calls on a fresh ledger (and no
\* other mutation) verify_chain() returns VALID with total_blocks = n + 1
ValidAfterEveryAdd ==
    calls >= 1 =>
        /\ VerifyChain(chain).status = "VALID"
        /\ VerifyChain(chain).total_blocks = calls + 1

ThreeAddsDone == calls = 3 /\ Len(chain) = 4

\* C3: every block i > 0 has previous_hash equal to the hash of block i - 1
HashLinkage ==
    \A i \in 1..(Len(chain) - 1) :
        At(chain, i).previous_hash = At(chain, i - 1).hash

TwoBlocksLinked == Len(chain) = 3 /\ calls = 2

\* C4: the genesis block has index 0, every later block has the index of its
\* predecessor plus 1, and so every block's index is its position
IndexContinuity ==
    /\ At(chain, 0).index = 0
    /\ \A i \in 1..(Len(chain) - 1) :
        At(chain, i).index = At(chain, i - 1).index + 1
    /\ \A i \in 0..(Len(chain) - 1) : At(chain, i).index = i

LastBlockAtPositionThree == Len(chain) = 4 /\ At(chain, 3).index = 3

\* C5: every block i > 0 stores the hash recomputed from its own stored
\* index, timestamp, evidence and previous_hash
HashSelfConsistent ==
    \A i \in 1..(Len(chain) - 1) :
        At(chain, i).hash =
            CalculateHash(At(chain, i).index, At(chain, i).timestamp,
                          At(chain, i).evidence, At(chain, i).previous_hash)

\* a block whose three clock readings are not all the same
BlockStampedLate ==
    /\ Len(chain) >= 2
    /\ At(chain, 1).timestamp # At(chain, 1).evidence.digital_signature.timestamp_signed

\* C6: a fresh ledger holds exactly one block, with index 0 and the sentinel
\* of 64 '0' characters as previous_hash, the length of every stored digest,
\* and verify_chain() returns VALID on it
FreshLedger ==
    /\ calls = 0 =>
        /\ Len(chain) = 1
        /\ At(chain, 0).index = 0
        /\ At(chain, 0).previous_hash = Sentinel
        /\ At(chain, 0).previous_hash = [i \in 1..64 |-> Tok("0")]
        /\ VerifyChain(chain).status = "VALID"
    /\ \A i \in 0..(Len(chain) - 1) :
        HexLen(At(chain, i).hash) = HexLen(At(chain, 0).previous_hash)

OnlyGenesis == calls = 0 /\ Len(chain) = 1 /\ At(chain, 0).evidence = GenesisEvidence

\* C7: the genesis block's hash is the digest of the genesis block's own
\* stored index, timestamp, evidence and previous_hash
GenesisHashOverStoredFields ==
    At(chain, 0).hash =
        CalculateHash(At(chain, 0).index, At(chain, 0).timestamp,
                      At(chain, 0).evidence, At(chain, 0).previous_hash)

\* C8: a successful add_evidence call makes the chain one block longer and
\* leaves every block stored before it unchanged
AppendOnly ==
    [][calls' = calls + 1 =>
        /\ Len(chain') = Len(chain) + 1
        /\ SubSeq(chain', 1, Len(chain)) = chain]_vars

AddedToGrownChain == calls = 3 /\ At(chain, 3).previous_hash = At(chain, 2).hash

\* C2: changing any field of chain[k].evidence in place, for any stored
\* block k of a chain built by add_evidence, makes verify_chain() return
\* COMPROMISED with compromised_block = k
TamperDetectedAtBlock ==
    tampered # -1 =>
        /\ VerifyChain(chain).status = "COMPROMISED"
        /\ VerifyChain(chain).compromised_block = tampered

\* what verify_chain does report: a rewritten evidence field of any block
\* after the genesis block is found at that block
TamperDetectedPastGenesis ==
    tampered >= 1 =>
        /\ VerifyChain(chain).status = "COMPROMISED"
        /\ VerifyChain(chain).compromised_block = tampered

\* C9: two add_evidence calls running concurrently on one ledger never both
\* build on the same last block: no two blocks of the chain have the same
\* index or the same previous_hash, and verify_chain() returns VALID
SerializedAppends ==
    /\ \A t \in Threads, u \in Threads :
        (t # u /\ pc[t] \in {"build", "verify", "append"}
               /\ pc[u] \in {"build", "verify", "append"})
            => frame[t].previous_block # frame[u].previous_block
    /\ \A i \in 0..(Len(chain) - 1), j \in 0..(Len(chain) - 1) :
        i # j => /\ At(chain, i).index # At(chain, j).index
                 /\ At(chain, i).previous_hash # At(chain, j).previous_hash
    /\ VerifyChain(chain).status = "VALID"

\* C10: when the block add_evidence built fails verify_block, the call ends
\* by raising and appends nothing: the chain is the chain from before
FailedVerificationAppendsNothing ==
    [][\A t \in Threads :
        (/\ pc[t] = "verify"
         /\ pc'[t] # "verify"
         /\ ~VerifyBlock(frame[t].new_block, At(chain, frame[t].previous_block)))
        => /\ outcome'[t] = "raised"
           /\ pc'[t] = "idle"
           /\ chain' = chain
           /\ calls' = calls]_vars

RaisedAfterAnAppend == outcome[1] = "raised" /\ Len(chain) = 2 /\ calls = 1

\* C11: under sequential use the verification before the append never
\* fails: whatever the next call passes in, the block it builds passes
\* verify_block against the last block, so the raising branch is not taken
CandidateAlwaysVerifies ==
    \A i \in 1..Len(EvidenceInputs), case_id \in CaseIds, agency \in Agencies,
       tc \in now..MaxTime, tn \in now..MaxTime :
        tc <= tn =>
            LET previous_block == PreviousBlock(chain)
                new_block == NewBlock(previous_block,
                                EvidenceMetadata(EvidenceInputs[i], case_id, agency, tc, tc),
                                tn)
            IN  VerifyBlock(new_block, previous_block)

VerifiedOnGrownChain ==
    calls = 2 /\ now < MaxTime /\ VerifyBlock(At(chain, 2), At(chain, 1))

\* C14: on a chain holding only the genesis block verify_chain() returns
\* VALID together with the count of blocks, as it does for a longer chain
GenesisOnlyReportsCount ==
    Len(chain) = 1 =>
        /\ VerifyChain(chain).status = "VALID"
        /\ "total_blocks" \in DOMAIN VerifyChain(chain)
        /\ VerifyChain(chain).total_blocks = 1

(* ----------------------- calls of verify_block ------------------------- *)

\* the fields of a block dict a caller of verify_block may have changed
BlockFields == {"none", "index", "previous_hash", "hash", "evidence"}

\* a copy of block whose field f differs from the stored one
Perturbed(block, f) ==
    IF f = "index" THEN [block EXCEPT !.index = @ + 2]
    ELSE IF f = "previous_hash" THEN [block EXCEPT !.previous_hash = Sha256(S("x"))]
    ELSE IF f = "hash" THEN [block EXCEPT !.hash = Sha256(S("y"))]
    ELSE IF f = "evidence"
         THEN [block EXCEPT !.evidence.description = TamperedValue("description", @)]
         ELSE block

\* block with its hash entry set to calculate_hash over its own fields
Rehashed(block) ==
    [block EXCEPT !.hash = CalculateHash(block.index, block.timestamp,
                                         block.evidence, block.previous_hash)]

\* verify_block(block, previous_block) called from outside: it has no raise
\* statement and reads keys every block dict has, so it returns its value
VerifyBlockCall(block, previous_block) ==
    /\ reader = NoCall
    /\ \A t \in Threads : pc[t] = "idle"
    /\ reader' = [op |-> "verify_block",
                  block |-> block,
                  previous_block |-> previous_block,
                  raised |-> FALSE,
                  value |-> VerifyBlock(block, previous_block)]
    /\ UNCHANGED <<chain, now, calls, pc, frame, outcome, tampered, others>>

\* a ledger filled by sequential calls, then verify_block applied to a stored
\* block or a changed copy of one, with or without a recomputed hash, and to
\* any stored block as previous_block
NextVerify ==
    \/ \E t \in 0..MaxTime :
          /\ reader = NoCall
          /\ Len(chain) < VerifyMaxBlocks
          /\ AddEvidence(EvidenceInputs[1], S("A"), S("NIA"), t, t, t)
    \/ \E i \in 0..(Len(chain) - 1), j \in 0..(Len(chain) - 1),
          f \in BlockFields, rehash \in BOOLEAN :
          LET b == Perturbed(At(chain, i), f)
          IN  VerifyBlockCall(IF rehash THEN Rehashed(b) ELSE b, At(chain, j))

SpecVerify == Init /\ [][NextVerify]_vars

\* C12: verify_block returns True exactly when the index follows the previous
\* one, previous_hash equals the previous block's hash and hash equals the
\* digest of the block's own index, timestamp, evidence and previous_hash;
\* otherwise it returns False and does not raise
VerifyBlockIsConjunction ==
    reader.op = "verify_block" =>
        /\ ~reader.raised
        /\ reader.value =
              (/\ reader.block.index = reader.previous_block.index + 1
               /\ reader.block.previous_hash = reader.previous_block.hash
               /\ reader.block.hash =
                     Sha256(Digits(reader.block.index) \o reader.block.timestamp
                            \o JsonDumps(reader.block.evidence)
                            \o reader.block.previous_hash))

\* a block whose index alone is off: linked, self-consistent, and rejected
OnlyIndexMismatch ==
    /\ reader.op = "verify_block"
    /\ reader.block.index # reader.previous_block.index + 1
    /\ reader.block.previous_hash = reader.previous_block.hash
    /\ reader.block.hash = CalculateHash(reader.block.index, reader.block.timestamp,
                                         reader.block.evidence, reader.block.previous_hash)
    /\ reader.value = FALSE

(* ------------------- verify_chain on a broken chain -------------------- *)

\* a holder of ledger.chain overwrites entry f of chain[k] in place
CorruptBlock(k, f) ==
    /\ reader = NoCall
    /\ \A t \in Threads : pc[t] = "idle"
    /\ k \in 0..(Len(chain) - 1)
    /\ chain' = [chain EXCEPT ![k + 1] = Perturbed(@, f)]
    /\ UNCHANGED <<now, calls, pc, frame, outcome, tampered, reader, others>>

\* verify_chain() that drops every block after the genesis block
VerifyChainCallResetting ==
    /\ reader = NoCall
    /\ \A t \in Threads : pc[t] = "idle"
    /\ reader' = [op |-> "verify_chain", raised |-> FALSE, value |-> VerifyChain(chain)]
    /\ chain' = <<chain[1]>>
    /\ UNCHANGED <<now, calls, pc, frame, outcome, tampered, others>>

\* verify_chain() called from outside, run from call to return
VerifyChainCall ==
    /\ reader = NoCall
    /\ \A t \in Threads : pc[t] = "idle"
    /\ reader' = [op |-> "verify_chain", raised |-> FALSE, value |-> VerifyChain(chain)]
    /\ UNCHANGED <<chain, now, calls, pc, frame, outcome, tampered, others>>

\* a ledger that is filled within one instant and whose stored hash and
\* previous_hash entries are overwritten any number of times, then verified
NextCorrupt ==
    \/ /\ reader = NoCall
       /\ Len(chain) < CorruptMaxBlocks
       /\ AddEvidence(EvidenceInputs[1], S("A"), S("NIA"), now, now, now)
    \/ \E k \in 0..(CorruptMaxBlocks - 1), f \in {"previous_hash", "hash"} :
          CorruptBlock(k, f)
    \/ VerifyChainCall

SpecCorrupt == Init /\ [][NextCorrupt]_vars

\* C13: on a chain in which one or more adjacent pairs fail verify_block,
\* verify_chain() does not raise and returns COMPROMISED with
\* compromised_block the smallest i >= 1 whose pair fails
SmallestFailingBlockReported ==
    (reader.op = "verify_chain" /\ FailingBlocks(chain) # {}) =>
        /\ ~reader.raised
        /\ reader.value.status = "COMPROMISED"
        /\ reader.value.compromised_block >= 1
        /\ reader.value.compromised_block = Min(FailingBlocks(chain))

\* both pairs of a three-block chain fail and the first one is reported
TwoPairsBrokenFirstReported ==
    /\ reader.op = "verify_chain"
    /\ FailingBlocks(chain) = {1, 2}
    /\ reader.value.compromised_block = 1

(* ------------------------------ reports -------------------------------- *)

\* what d.get(k) gives for a key d does not have
None == <<Tok("None")>>

\* strftime("%Y") and strftime("%Y%m%d") of a reading of the clock
StrfYear(t) == S("2026")
StrfDay(t) == S("20261104")

\* (now + timedelta(days=30)).isoformat()
IsoFormatPlus30Days(t) ==
    <<Tok("2"), Tok("0"), Tok("2"), Tok("6"), Tok("-12-04T00:00:00")>>
        \o (IF t % 1000000 = 0 THEN <<>> ELSE <<Tok(".")>> \o Pad(t % 1000000, 6))

\* hashlib.sha256(s.encode()).hexdigest()[:16]
Sha256Prefix16(s) == << <<"sha256[:16]", s>> >>

\* a filter that keeps every block
CaseEvidenceUnfiltered(c, case_id) == c

\* [block for block in self.chain if block['evidence'].get('case_id') == case_id]
CaseEvidence(c, case_id) ==
    SelectSeq(c, LAMBDA block : Get(block.evidence, "case_id", None) = case_id)

\* how a call ends: with a returned value or with an exception
Returned(v) == [raised |-> FALSE, value |-> v]
Raised(e) == [raised |-> TRUE, value |-> [exception |-> e]]

\* the evidence keys generate_fir_report subscripts in every block of the case
FirBlockKeys == {"evidence_type", "severity", "description", "digital_signature"}

\* generate_fir_report that goes on when no block matches
GenerateFirReportUnguarded(c, case_id, t) ==
    LET case_evidence == CaseEvidence(c, case_id)
    IN  IF case_evidence = <<>> THEN Raised("IndexError")
        ELSE IF "timestamp_collected" \notin DOMAIN case_evidence[1].evidence
             THEN Raised("KeyError")
             ELSE Returned([fir_number |-> S("FIR/") \o StrfYear(t) \o S("/") \o case_id])

\* generate_fir_report at clock reading t; the entries of the report that are
\* literals are not carried
GenerateFirReport(c, case_id, t) ==
    LET case_evidence == CaseEvidence(c, case_id)
    IN  IF case_evidence = <<>>
        THEN Returned([error |-> S("No evidence found for case ") \o case_id])
        ELSE IF \/ "timestamp_collected" \notin DOMAIN case_evidence[1].evidence
                \/ \E k \in 1..Len(case_evidence) :
                      ~(FirBlockKeys \subseteq DOMAIN case_evidence[k].evidence)
             THEN Raised("KeyError")
             ELSE Returned(
                    [fir_number |-> S("FIR/") \o StrfYear(t) \o S("/") \o case_id,
                     date_time_lodged |-> IsoFormat(t),
                     case_details |->
                        [case_id |-> case_id,
                         date_time_occurrence |-> case_evidence[1].evidence.timestamp_collected,
                         place_of_occurrence |->
                            Get(case_evidence[1].evidence, "location", S("Multiple locations"))],
                     evidence_chain |->
                        [k \in 1..Len(case_evidence) |->
                            [block_index |-> case_evidence[k].index,
                             timestamp |-> case_evidence[k].timestamp,
                             evidence_hash |-> case_evidence[k].hash,
                             evidence_type |-> case_evidence[k].evidence.evidence_type,
                             severity |-> case_evidence[k].evidence.severity,
                             description |-> case_evidence[k].evidence.description]],
                     digital_signatures |->
                        [k \in 1..Len(case_evidence) |->
                            case_evidence[k].evidence.digital_signature],
                     blockchain_verification |-> VerifyChain(c)])

\* one line of _extract_key_findings
Finding(evidence) ==
    evidence.evidence_type \o S(" at ")
        \o Get(evidence, "location", S("Unknown location"))
        \o S(" on ") \o evidence.timestamp_collected

\* _extract_key_findings: the first five findings of HIGH or CRITICAL blocks
ExtractKeyFindings(case_evidence) ==
    LET severe == SelectSeq(case_evidence,
                    LAMBDA block : block.evidence.severity \in {S("HIGH"), S("CRITICAL")})
        findings == [k \in 1..Len(severe) |-> Finding(severe[k].evidence)]
    IN  SubSeq(findings, 1, IF Len(findings) < 5 THEN Len(findings) ELSE 5)

\* _extract_key_findings raises KeyError on a block without severity, or on a
\* severe block without evidence_type or timestamp_collected
FindingsRaise(case_evidence) ==
    \E k \in 1..Len(case_evidence) :
        LET evidence == case_evidence[k].evidence
        IN  \/ "severity" \notin DOMAIN evidence
            \/ /\ evidence.severity \in {S("HIGH"), S("CRITICAL")}
               /\ ~({"evidence_type", "timestamp_collected"} \subseteq DOMAIN evidence)

\* generate_ecourt_compatible at clock reading t, literals not carried
GenerateEcourtCompatible(c, case_id, t) ==
    LET case_evidence == CaseEvidence(c, case_id)
    IN  IF case_evidence = <<>>
        THEN Returned([error |-> S("No evidence found for case ") \o case_id])
        ELSE IF \/ FindingsRaise(case_evidence)
                \/ \E k \in 1..Len(case_evidence) :
                      "digital_signature" \notin DOMAIN case_evidence[k].evidence
             THEN Raised("KeyError")
             ELSE Returned(
                    [package_id |-> S("ECOURT/") \o StrfDay(t) \o S("/") \o case_id,
                     court_details |->
                        [case_number |-> S("STATE vs ACCUSED/") \o case_id,
                         next_hearing |-> IsoFormatPlus30Days(t)],
                     evidence_summary |->
                        [total_evidence_blocks |-> Len(case_evidence),
                         time_period |-> case_evidence[1].timestamp \o S(" to ")
                                            \o case_evidence[Len(case_evidence)].timestamp,
                         key_findings |-> ExtractKeyFindings(case_evidence)],
                     blockchain_certificate |->
                        [certificate_id |-> S("BC-CERT-") \o Sha256Prefix16(case_id),
                         qr_code_data |-> S("VERIFY|") \o case_id \o S("|")
                                            \o c[Len(c)].hash],
                     digital_evidence_files |->
                        [k \in 1..Len(case_evidence) |->
                            [file_name |-> S("evidence_block_")
                                            \o Digits(case_evidence[k].index) \o S(".json"),
                             hash_value |-> case_evidence[k].hash,
                             blockchain_proof |->
                                [previous_hash |-> case_evidence[k].previous_hash,
                                 timestamp |-> case_evidence[k].timestamp,
                                 index |-> case_evidence[k].index]]],
                     witness_statements |->
                        [k \in 1..Len(case_evidence) |->
                            [witness_id |-> S("WIT") \o Pad(k - 1, 3),
                             digital_signature |->
                                case_evidence[k].evidence.digital_signature]]])

\* the formatted size of json.dumps(self.chain): a text the chain determines
StorageSizeEstimate(c) == << <<"KB", c>> >>

\* get_chain_statistics
GetChainStatistics(c) ==
    LET case_ids == {Get(c[k].evidence, "case_id", None) : k \in 1..Len(c)}
        ev_types == {Get(c[k].evidence, "evidence_type", None) : k \in 1..Len(c)}
    IN  Returned(
            [total_blocks |-> Len(c),
             first_block_timestamp |-> IF c # <<>> THEN c[1].timestamp ELSE S("N/A"),
             last_block_timestamp |-> IF c # <<>> THEN c[Len(c)].timestamp ELSE S("N/A"),
             total_cases |-> Cardinality(case_ids),
             evidence_types |->
                [ev_type \in ev_types |->
                    Cardinality({k \in 1..Len(c) :
                        Get(c[k].evidence, "evidence_type", None) = ev_type})],
             chain_integrity |-> VerifyChain(c).status,
             storage_size_estimate |-> StorageSizeEstimate(c)])

\* export_for_court
ExportForCourt(c, case_id, format, t) ==
    IF format = "json" THEN GenerateEcourtCompatible(c, case_id, t)
    ELSE IF format = "fir" THEN GenerateFirReport(c, case_id, t)
    ELSE IF format = "blockchain"
         THEN Returned([case_id |-> case_id,
                        blockchain_evidence |-> CaseEvidence(c, case_id),
                        verification_report |-> VerifyChain(c)])
         ELSE Returned([error |-> S("Unsupported format: ") \o S(format)])

\* a report call that leaves nothing but the genesis block in the ledger
ReportCallDraining(op, case_id, format, t, result) ==
    /\ reader = NoCall
    /\ \A th \in Threads : pc[th] = "idle"
    /\ now <= t /\ t <= MaxTime
    /\ reader' = [op |-> op, case_id |-> case_id, format |-> format] @@ result
    /\ now' = t
    /\ chain' = <<chain[1]>>
    /\ UNCHANGED <<calls, pc, frame, outcome, tampered, others>>

\* a read-only call made from outside, run from call to return; t is the
\* reading of the clock that goes into the report
ReportCall(op, case_id, format, t, result) ==
    /\ reader = NoCall
    /\ \A th \in Threads : pc[th] = "idle"
    /\ now <= t /\ t <= MaxTime
    /\ reader' = [op |-> op, case_id |-> case_id, format |-> format] @@ result
    /\ now' = t
    /\ UNCHANGED <<chain, calls, pc, frame, outcome, tampered, others>>

GenerateFirReportCall(case_id, t) ==
    ReportCall("generate_fir_report", case_id, "", t, GenerateFirReport(chain, case_id, t))

GenerateEcourtCompatibleCall(case_id, t) ==
    ReportCall("generate_ecourt_compatible", case_id, "", t,
               GenerateEcourtCompatible(chain, case_id, t))

GetChainStatisticsCall ==
    ReportCall("get_chain_statistics", <<>>, "", now, GetChainStatistics(chain))

ExportForCourtCall(case_id, format, t) ==
    ReportCall("export_for_court", case_id, format, t,
               ExportForCourt(chain, case_id, format, t))

\* the case ids that are queried: the two that are filed under, one that is
\* not, and the one of the genesis block
QueryIds == CaseIds \cup {S("C"), S("GENESIS-2024-001")}

\* the format arguments: the three the code knows and one it does not
Formats == {"json", "fir", "blockchain", "pdf"}

\* a ledger filled by sequential calls under two case ids, then queried once
NextReports ==
    \/ \E case_id \in CaseIds :
          /\ reader = NoCall
          /\ Len(chain) < ReportMaxBlocks
          /\ AddEvidence(EvidenceInputs[1], case_id, S("NIA"), now, now, now)
    \/ VerifyChainCall
    \/ \E case_id \in QueryIds, t \in 0..MaxTime : GenerateFirReportCall(case_id, t)
    \/ \E case_id \in QueryIds, t \in 0..MaxTime : GenerateEcourtCompatibleCall(case_id, t)
    \/ GetChainStatisticsCall
    \/ \E case_id \in QueryIds, format \in Formats, t \in 0..MaxTime :
          ExportForCourtCall(case_id, format, t)

SpecReports == Init /\ [][NextReports]_vars

ReportOps == {"generate_fir_report", "generate_ecourt_compatible",
              "get_chain_statistics", "export_for_court"}

\* the positions of c whose block is filed under case_id
Matching(c, case_id) ==
    {i \in 1..Len(c) : "case_id" \in DOMAIN c[i].evidence /\ c[i].evidence.case_id = case_id}

\* C15: the chain always holds at least one block, no operation of the class
\* makes it shorter, verify_chain() never returns EMPTY, and a chain that has
\* grown past the genesis block never goes back to the genesis block alone
ChainNeverShrinks ==
    /\ [](/\ Len(chain) >= 1
          /\ reader.op = "verify_chain" => reader.value.status # "EMPTY")
    /\ [][/\ Len(chain') >= Len(chain)
          /\ Len(chain) > 1 => Len(chain') > 1]_vars

VerifiedFullLedger ==
    /\ reader.op = "verify_chain"
    /\ Len(chain) = ReportMaxBlocks
    /\ reader.value.status = "VALID"

\* C17: generate_fir_report, generate_ecourt_compatible, get_chain_statistics
\* and export_for_court with every format leave the chain as it was: same
\* length, every block the same, whatever case id is asked for
ReportsLeaveChainUnchanged ==
    [][reader'.op \in ReportOps /\ reader.op = "none" =>
          /\ Len(chain') = Len(chain)
          /\ \A i \in 1..Len(chain) : chain'[i] = chain[i]]_vars

PackageFromGrownLedger ==
    /\ reader.op = "generate_ecourt_compatible"
    /\ ~reader.raised
    /\ "package_id" \in DOMAIN reader.value
    /\ Len(chain) >= 3

\* C18: a query by case id yields exactly the stored blocks filed under that
\* case id, each once, in the order they were appended
CaseQueryExactInOrder ==
    /\ (reader.op = "export_for_court" /\ reader.format = "blockchain") =>
          LET found == reader.value.blockchain_evidence
          IN  /\ \A k \in 1..Len(found) :
                    \E i \in Matching(chain, reader.case_id) : found[k] = chain[i]
              /\ \A k \in 1..(Len(found) - 1) : found[k].index < found[k + 1].index
              /\ Len(found) = Cardinality(Matching(chain, reader.case_id))
    /\ (reader.op = "generate_fir_report" /\ ~reader.raised
            /\ "evidence_chain" \in DOMAIN reader.value) =>
          LET listed == reader.value.evidence_chain
          IN  /\ \A k \in 1..Len(listed) :
                    \E i \in Matching(chain, reader.case_id) :
                        listed[k].block_index = chain[i].index
              /\ \A k \in 1..(Len(listed) - 1) :
                    listed[k].block_index < listed[k + 1].block_index
              /\ Len(listed) = Cardinality(Matching(chain, reader.case_id))

\* after A, A, B the query for A yields the two A blocks
TwoOfThreeFound ==
    /\ reader.op = "export_for_court" /\ reader.format = "blockchain"
    /\ reader.case_id = S("A")
    /\ Len(chain) = 4
    /\ At(chain, 1).evidence.case_id = S("A")
    /\ At(chain, 2).evidence.case_id = S("A")
    /\ At(chain, 3).evidence.case_id = S("B")
    /\ reader.value.blockchain_evidence = <<At(chain, 1), At(chain, 2)>>

\* C19: generate_fir_report, generate_ecourt_compatible and export_for_court
\* asked for a case id no stored block has return an error entry or an empty
\* list of blocks, and do not raise
UnmatchedCaseReturnsValue ==
    (/\ reader.op \in {"generate_fir_report", "generate_ecourt_compatible",
                       "export_for_court"}
     /\ Matching(chain, reader.case_id) = {}) =>
        /\ ~reader.raised
        /\ \/ "error" \in DOMAIN reader.value
           \/ /\ "blockchain_evidence" \in DOMAIN reader.value
              /\ reader.value.blockchain_evidence = <<>>

UnknownCaseAskedOfGrownLedger ==
    /\ reader.op = "generate_fir_report"
    /\ reader.case_id = S("C")
    /\ Len(chain) >= 2
    /\ reader.value = [error |-> S("No evidence found for case ") \o S("C")]

(* ------------------ verify_chain next to add_evidence ------------------ *)

\* where a running verify_chain call stands, with its loop variable i and the
\* end n of its range
Scanning(at, i, n) ==
    [op |-> "verify_chain", pc |-> at, i |-> i, n |-> n,
     raised |-> FALSE, value |-> EmptyDict]

ScanDone(v) ==
    [op |-> "verify_chain", pc |-> "done", i |-> 0, n |-> 0,
     raised |-> FALSE, value |-> v]

ScanFrame == <<chain, now, calls, pc, frame, outcome, tampered, others>>

\* a thread calls verify_chain()
ScanCallStep ==
    /\ reader = NoCall
    /\ reader' = Scanning("check_empty", 0, 0)
    /\ UNCHANGED ScanFrame

\* lines 116-117: if len(self.chain) == 0
ScanCheckEmptyStep ==
    /\ reader.op = "verify_chain" /\ reader.pc = "check_empty"
    /\ reader' = IF Len(chain) = 0
                 THEN ScanDone([status |-> "EMPTY", message |-> S("Chain is empty")])
                 ELSE Scanning("check_genesis", 0, 0)
    /\ UNCHANGED ScanFrame

\* lines 119-120: if len(self.chain) == 1
ScanCheckGenesisStep ==
    /\ reader.op = "verify_chain" /\ reader.pc = "check_genesis"
    /\ reader' = IF Len(chain) = 1
                 THEN ScanDone([status |-> "VALID",
                                message |-> S("Only genesis block exists")])
                 ELSE Scanning("range", 0, 0)
    /\ UNCHANGED ScanFrame

\* line 122: range(1, len(self.chain)) is built once, from the length the
\* list has at this moment
ScanRangeStep ==
    /\ reader.op = "verify_chain" /\ reader.pc = "range"
    /\ reader' = Scanning("loop", 1, Len(chain))
    /\ UNCHANGED ScanFrame

\* lines 122-128: one turn of the loop, or its end
ScanLoopStep ==
    /\ reader.op = "verify_chain" /\ reader.pc = "loop"
    /\ reader' = IF reader.i >= reader.n THEN Scanning("result", reader.i, reader.n)
                 ELSE IF ~VerifyBlock(At(chain, reader.i), At(chain, reader.i - 1))
                      THEN ScanDone(Compromised(reader.i))
                      ELSE Scanning("loop", reader.i + 1, reader.n)
    /\ UNCHANGED ScanFrame

\* lines 130-134: the result is built from the length the list has now
ScanResultStep ==
    /\ reader.op = "verify_chain" /\ reader.pc = "result"
    /\ reader' = ScanDone(Verified(chain))
    /\ UNCHANGED ScanFrame

ScanNext ==
    \/ ScanCallStep
    \/ ScanCheckEmptyStep
    \/ ScanCheckGenesisStep
    \/ ScanRangeStep
    \/ ScanLoopStep
    \/ ScanResultStep

\* the steps of caller t's add_evidence calls, all reading the same instant
ScanCallerNext(t) ==
    \/ /\ Len(chain) + Running < ScanMaxBlocks
       /\ CallStep(t, EvidenceInputs[1], S("A"), S("NIA"), now, now)
    \/ ReadLastStep(t)
    \/ BuildStep(t, now)
    \/ VerifyStep(t)
    \/ AppendStep(t)

\* two callers run add_evidence while a third thread runs verify_chain once;
\* no stored block is written to
NextScan == (\E t \in Threads : ScanCallerNext(t)) \/ ScanNext

SpecScan == Init /\ [][NextScan]_vars

\* C16: a verify_chain() scan that runs next to add_evidence calls on a chain
\* nobody tampers with sees whole blocks only and never returns COMPROMISED
ScanNeverCompromised ==
    (reader.op = "verify_chain" /\ reader.pc = "done" /\ tampered = -1) =>
        /\ \A k \in 1..Len(chain) :
              DOMAIN chain[k] = {"index", "timestamp", "evidence", "previous_hash", "hash"}
        /\ reader.value.status # "COMPROMISED"

(* ---------------- calculate_hash and insertion order -------------------- *)

\* A dict whose insertion order matters is kept as the sequence of its
\* <<key, value>> items in insertion order.

\* the place of key k in the order sort_keys gives
KeyRank(k) == CHOOSE j \in 1..Len(SortedKeys) : SortedKeys[j] = k

\* items left in insertion order
ItemsUnsorted(items) == items

\* the items in the order json.dumps(..., sort_keys=True) writes them
SortItems(items) == SortSeq(items, LAMBDA a, b : KeyRank(a[1]) < KeyRank(b[1]))

\* "key": value of the items, joined by ", "
RECURSIVE JsonItemsInOrder(_)
JsonItemsInOrder(items) ==
    IF items = <<>> THEN <<>>
    ELSE JsonString(S(Head(items)[1])) \o <<Tok(": ")>>
            \o JsonValue(Head(items)[1], Head(items)[2])
         \o (IF Tail(items) = <<>> THEN <<>>
             ELSE <<Tok(", ")>> \o JsonItemsInOrder(Tail(items)))

\* json.dumps(d, sort_keys=True) of a dict given by its items
JsonDumpsOrdered(items) ==
    <<Tok("{")>> \o JsonItemsInOrder(SortItems(items)) \o <<Tok("}")>>

\* calculate_hash of an evidence dict given by its items
CalculateHashOrdered(index, timestamp, items, previous_hash) ==
    Sha256(Digits(index) \o timestamp \o JsonDumpsOrdered(items) \o previous_hash)

\* the mapping a dict holds, whatever the order its keys went in
DictOf(items) ==
    [k \in {items[j][1] : j \in 1..Len(items)} |->
        (CHOOSE it \in {items[j] : j \in 1..Len(items)} : it[1] = k)[2]]

\* the items evidence dicts are made of
EvidenceItems ==
    {<<"case_id", S("A")>>, <<"case_id", S("B")>>,
     <<"agency", S("NIA")>>, <<"severity", S("HIGH")>>}

\* the dicts of at most MaxItems of these items, in every insertion order
OrderedDicts ==
    {items \in UNION {[1..n -> EvidenceItems] : n \in 0..MaxItems} :
        \A i \in 1..Len(items), j \in 1..Len(items) :
            i # j => items[i][1] # items[j][1]}

\* calculate_hash(index, timestamp, evidence, previous_hash) called from outside
CalculateHashCall(index, timestamp, items, previous_hash) ==
    /\ \A t \in Threads : pc[t] = "idle"
    /\ reader' = [op |-> "calculate_hash",
                  index |-> index,
                  timestamp |-> timestamp,
                  evidence |-> items,
                  previous_hash |-> previous_hash,
                  raised |-> FALSE,
                  value |-> CalculateHashOrdered(index, timestamp, items, previous_hash)]
    /\ UNCHANGED <<chain, now, calls, pc, frame, outcome, tampered, others>>

\* calculate_hash called again and again on a fresh ledger
NextHash ==
    \E index \in 0..1, items \in OrderedDicts,
       previous_hash \in {Sentinel, At(chain, 0).hash} :
        CalculateHashCall(index, IsoFormat(now), items, previous_hash)

SpecHash == Init /\ [][NextHash]_vars

\* C20: two calls of calculate_hash with equal index, timestamp and
\* previous_hash and with evidence dicts that hold the same key-value pairs,
\* put in in any order, return the same digest
HashIgnoresInsertionOrder ==
    [][(/\ reader.op = "calculate_hash"
        /\ reader'.op = "calculate_hash"
        /\ reader'.index = reader.index
        /\ reader'.timestamp = reader.timestamp
        /\ reader'.previous_hash = reader.previous_hash
        /\ DictOf(reader'.evidence) = DictOf(reader.evidence))
            => reader'.value = reader.value]_vars

\* a dict whose keys went in against the sorted order was hashed
HashedOutOfOrderDict ==
    /\ reader.op = "calculate_hash"
    /\ Len(reader.evidence) = 2
    /\ reader.evidence[1][1] = "severity"
    /\ reader.evidence[2][1] = "case_id"
    /\ reader.value = CalculateHash(reader.index, reader.timestamp,
                                    DictOf(reader.evidence), reader.previous_hash)

(* ------------------- calculate_hash and its arguments ------------------ *)

\* index arguments: two numbers of which one's digits start with the other's
HashIndexes == {1, 11}

\* timestamp arguments at clock reading t: the isoformat text, and the same
\* text after a digit
HashTimestamps(t) == {IsoFormat(t), <<Tok("1")>> \o IsoFormat(t)}

\* evidence arguments: dicts that differ in one value, in a key, or in a
\* nested list
HashEvidences ==
    {EmptyDict,
     [case_id |-> S("A")],
     [case_id |-> S("B")],
     [case_id |-> S("A"), agency |-> S("NIA")],
     [case_id |-> S("A"), witnesses |-> <<S("w1")>>],
     [case_id |-> S("A"), witnesses |-> <<S("w1"), S("w2")>>]}

\* previous_hash arguments
HashPreviousHashes == {Sentinel, Sha256(S("x"))}

\* calculate_hash(index, timestamp, evidence, previous_hash) called from
\* outside with a dict of strings and lists; block_string is kept next to
\* the digest
CalculateHashDictCall(index, timestamp, evidence, previous_hash) ==
    /\ \A t \in Threads : pc[t] = "idle"
    /\ reader' = [op |-> "calculate_hash",
                  index |-> index,
                  timestamp |-> timestamp,
                  evidence |-> evidence,
                  previous_hash |-> previous_hash,
                  block_string |-> BlockString(index, timestamp, evidence, previous_hash),
                  raised |-> FALSE,
                  value |-> CalculateHash(index, timestamp, evidence, previous_hash)]
    /\ UNCHANGED <<chain, now, calls, pc, frame, outcome, tampered, others>>

\* calculate_hash called again and again with arguments of these sets
NextHashArgs ==
    \E index \in HashIndexes, timestamp \in HashTimestamps(now),
       evidence \in HashEvidences, previous_hash \in HashPreviousHashes :
        CalculateHashDictCall(index, timestamp, evidence, previous_hash)

SpecHashArgs == Init /\ [][NextHashArgs]_vars

\* two evidence dicts with the same keys that differ in the value of one key
OneValueChanged(e1, e2) ==
    /\ DOMAIN e1 = DOMAIN e2
    /\ Cardinality({k \in DOMAIN e1 : e1[k] # e2[k]}) = 1

\* C21: changing exactly one of index, previous_hash or the value of one
\* evidence field, the other arguments staying the same, changes the string
\* that is hashed and the digest
HashSensitiveToEachArgument ==
    [][(/\ reader.op = "calculate_hash"
        /\ reader'.op = "calculate_hash"
        /\ reader'.timestamp = reader.timestamp
        /\ \/ /\ reader'.index # reader.index
              /\ reader'.evidence = reader.evidence
              /\ reader'.previous_hash = reader.previous_hash
           \/ /\ reader'.index = reader.index
              /\ reader'.evidence = reader.evidence
              /\ reader'.previous_hash # reader.previous_hash
           \/ /\ reader'.index = reader.index
              /\ OneValueChanged(reader.evidence, reader'.evidence)
              /\ reader'.previous_hash = reader.previous_hash)
            => /\ reader'.block_string # reader.block_string
               /\ reader'.value # reader.value]_vars

\* a dict whose witnesses list holds two names was hashed
HashedNestedList ==
    /\ reader.op = "calculate_hash"
    /\ "witnesses" \in DOMAIN reader.evidence
    /\ Len(reader.evidence.witnesses) = 2
    /\ reader.index = 11
    /\ reader.value = Sha256(reader.block_string)

\* C28: two argument tuples (index, timestamp, evidence, previous_hash) that
\* differ in any component never give the same string to hash
BlockStringInjective ==
    [][(/\ reader.op = "calculate_hash"
        /\ reader'.op = "calculate_hash"
        /\ <<reader'.index, reader'.timestamp, reader'.evidence, reader'.previous_hash>>
              # <<reader.index, reader.timestamp, reader.evidence, reader.previous_hash>>)
            => reader'.block_string # reader.block_string]_vars

(* --------------------- verifying a copied snapshot --------------------- *)

\* the chain_name arguments: the default of __init__ and another name
ChainNames == {S("SENTINEL-X_EVIDENCE_CHAIN"), S("SNAPSHOT")}

\* the attributes of a ledger object
Ledger(c, chain_name) == [chain |-> c, chain_name |-> chain_name]

\* a verify_chain that answers for the default chain_name only
LedgerVerifyChainByName(self) ==
    IF self.chain_name = S("SENTINEL-X_EVIDENCE_CHAIN") THEN VerifyChain(self.chain)
    ELSE [status |-> "EMPTY", message |-> S("Chain is empty")]

\* verify_chain as a method of the object self: self.chain is the only
\* attribute lines 114-134 and verify_block read
LedgerVerifyChain(self) == VerifyChain(self.chain)

\* other = BlockchainEvidenceLedger(chain_name); other.chain =
\* copy.deepcopy(ledger.chain); then verify_chain() is called on both
VerifySnapshotCall(chain_name) ==
    /\ reader = NoCall
    /\ \A t \in Threads : pc[t] = "idle"
    /\ reader' = [op |-> "verify_snapshot",
                  chain_name |-> chain_name,
                  snapshot |-> chain,
                  raised |-> FALSE,
                  live |-> LedgerVerifyChain(Ledger(chain, S("SENTINEL-X_EVIDENCE_CHAIN"))),
                  value |-> LedgerVerifyChain(Ledger(chain, chain_name))]
    /\ UNCHANGED <<chain, now, calls, pc, frame, outcome, tampered, others>>

\* a ledger that is filled and whose stored entries are overwritten, then
\* copied into a ledger of its own and verified there
NextSnapshot ==
    \/ /\ reader = NoCall
       /\ Len(chain) < CorruptMaxBlocks
       /\ AddEvidence(EvidenceInputs[1], S("A"), S("NIA"), now, now, now)
    \/ \E k \in 0..(CorruptMaxBlocks - 1), f \in {"previous_hash", "hash"} :
          CorruptBlock(k, f)
    \/ \E chain_name \in ChainNames : VerifySnapshotCall(chain_name)

SpecSnapshot == Init /\ [][NextSnapshot]_vars

PyObject == << <<"object", "set">> >>

\* json.dumps(d) returns: no value of d, and no item of a list in d, is such
\* an object
Serializable(d) ==
    \A k \in DOMAIN d :
        /\ d[k] # PyObject
        /\ k \in StrListKeys => \A j \in 1..Len(d[k]) : d[k][j] # PyObject

\* evidence_data dicts with an unserializable value: under a key add_evidence
\* reads, inside the witnesses list, and under a key it does not read
BadEvidenceInputs ==
    <<[threat_level |-> PyObject, description |-> S("d1")],
      [witnesses |-> <<S("w1"), PyObject>>],
      [description |-> S("d1"), raw |-> PyObject]>>

\* d without its unserializable values
WithoutObjects(d) ==
    [k \in {j \in DOMAIN d : d[j] # PyObject} |->
        IF k \in StrListKeys THEN SelectSeq(d[k], LAMBDA v : v # PyObject) ELSE d[k]]

\* an add_evidence that leaves out what json cannot write and goes on
AddEvidenceDropping(t, evidence_data, case_id, agency, tc) ==
    /\ \A th \in Threads : pc[th] = "idle"
    /\ ~Serializable(evidence_data)
    /\ now <= tc /\ tc <= MaxTime
    /\ chain' = ChainAppend(chain,
                    NewBlock(PreviousBlock(chain),
                             EvidenceMetadata(WithoutObjects(evidence_data),
                                              case_id, agency, tc, tc), tc))
    /\ calls' = calls + 1
    /\ outcome' = [outcome EXCEPT ![t] = "returned"]
    /\ frame' = [frame EXCEPT ![t] = [NoFrame EXCEPT !.evidence_data = evidence_data]]
    /\ now' = tc
    /\ UNCHANGED <<pc, tampered, reader, others>>

\* add_evidence called by t with data json cannot write: the dict literal of
\* lines 44-56 reads the clock at tc (line 47) and then calls
\* _create_digital_signature, whose json.dumps(evidence_data) raises
\* TypeError (line 139); the traceback keeps the argument
AddEvidenceUnserializable(t, evidence_data, case_id, agency, tc) ==
    /\ \A th \in Threads : pc[th] = "idle"
    /\ ~Serializable(evidence_data)
    /\ now <= tc /\ tc <= MaxTime
    /\ outcome' = [outcome EXCEPT ![t] = "raised"]
    /\ frame' = [frame EXCEPT ![t] = [NoFrame EXCEPT !.evidence_data = evidence_data]]
    /\ now' = tc
    /\ UNCHANGED <<chain, calls, pc, tampered, reader, others>>

\* sequential calls of one caller, some with data json cannot write
NextSerial ==
    \/ \E i \in 1..Len(EvidenceInputs), case_id \in CaseIds :
          /\ Len(chain) < SerialMaxBlocks
          /\ AddEvidence(EvidenceInputs[i], case_id, S("NIA"), now, now, now)
    \/ \E i \in 1..Len(BadEvidenceInputs), tc \in 0..MaxTime :
          /\ Len(chain) < SerialMaxBlocks
          /\ AddEvidenceUnserializable(1, BadEvidenceInputs[i], S("A"), S("NIA"), tc)

SpecSerial == Init /\ [][NextSerial]_vars

\* C23: an add_evidence call whose evidence data holds a non-serializable
\* value raises, and the chain is as it was before: no block is appended
UnserializableRaises ==
    [][(/\ frame'[1] # frame[1]
        /\ ~Serializable(frame'[1].evidence_data))
            => /\ outcome'[1] = "raised"
               /\ chain' = chain
               /\ calls' = calls]_vars

\* a call with an object inside the witnesses list raised on a grown ledger
RaisedOnNestedObject ==
    /\ outcome[1] = "raised"
    /\ "witnesses" \in DOMAIN frame[1].evidence_data
    /\ frame[1].evidence_data.witnesses[2] = PyObject
    /\ Len(chain) = 2

(* ------------------ the caller's data after the call ------------------- *)

\* line 53 stores evidence_data.get('witnesses', []) as it is: when the caller
\* passed a witnesses list, chain[k]['evidence']['witnesses'] is that very
\* list.  After the call has returned the caller appends a name to the list.
CallerAppendsWitness(k) ==
    /\ \A t \in Threads : pc[t] = "idle"
    /\ k \in 1..(Len(chain) - 1)
    /\ At(chain, k).evidence.witnesses # <<>>
    /\ Len(At(chain, k).evidence.witnesses) < MaxWitnesses
    /\ chain' = [chain EXCEPT ![k + 1].evidence.witnesses = Append(@, S("w2"))]
    /\ UNCHANGED <<now, calls, pc, frame, outcome, tampered, reader, others>>

\* sequential calls of a caller that goes on using the lists it passed in
NextAlias ==
    \/ \E i \in 1..Len(EvidenceInputs), case_id \in CaseIds, t \in 0..MaxTime :
          /\ Len(chain) < AliasMaxBlocks
          /\ AddEvidence(EvidenceInputs[i], case_id, S("NIA"), t, t, t)
    \/ \E k \in 1..(AliasMaxBlocks - 1) : CallerAppendsWitness(k)

SpecAlias == Init /\ [][NextAlias]_vars

\* C24: after add_evidence has returned, a change the caller makes in place
\* to the evidence_data it passed in, its witnesses list included, changes no
\* field of a stored block, and verify_chain() keeps returning VALID
StoredBlocksNotAliased ==
    /\ [](VerifyChain(chain).status = "VALID")
    /\ [][\A k \in 1..Len(chain) : chain'[k] = chain[k]]_vars

(* --------------------- tampering with a new hash ----------------------- *)

\* what a tamperer puts in the place of an evidence dict: the same with
\* another description, or an empty dict
Replaced(evidence, how) ==
    IF how = "emptied" THEN EmptyDict
    ELSE [evidence EXCEPT !.description = TamperedValue("description", @)]

\* a holder of ledger.chain replaces chain[k]['evidence'] of a block that is
\* not the last one and sets chain[k]['hash'] to calculate_hash over the
\* block's fields as they are now; it does so once
TamperAndRehash(k, how) ==
    /\ tampered = -1
    /\ \A t \in Threads : pc[t] = "idle"
    /\ k \in 0..(Len(chain) - 2)
    /\ chain' = [chain EXCEPT ![k + 1] =
                    Rehashed([@ EXCEPT !.evidence = Replaced(@, how)])]
    /\ tampered' = k
    /\ UNCHANGED <<now, calls, pc, frame, outcome, reader, others>>

\* sequential use of a ledger one block of which is replaced and rehashed
NextRehash ==
    \/ \E i \in 1..Len(EvidenceInputs), t \in 0..MaxTime :
          /\ Len(chain) < RehashMaxBlocks
          /\ AddEvidence(EvidenceInputs[i], S("A"), S("NIA"), t, t, t)
    \/ \E k \in 0..(RehashMaxBlocks - 2), how \in {"reworded", "emptied"} :
          TamperAndRehash(k, how)

SpecRehash == Init /\ [][NextRehash]_vars

\* C25: replacing the evidence of a block k that is not the last one, the
\* genesis block included, and setting its hash to the recomputed digest
\* makes verify_chain() return COMPROMISED with compromised_block = k + 1
RehashedTamperCaughtBySuccessor ==
    tampered # -1 =>
        /\ VerifyChain(chain).status = "COMPROMISED"
        /\ VerifyChain(chain).compromised_block = tampered + 1

\* C26: once verify_chain() returns COMPROMISED with compromised_block = k,
\* an add_evidence call still succeeds and verify_chain() returns COMPROMISED
\* with the same k after it
CompromiseNotMasked ==
    [][(VerifyChain(chain).status = "COMPROMISED" /\ chain' # chain /\ calls' # calls)
            => /\ calls' = calls + 1
               /\ Len(chain') = Len(chain) + 1
               /\ VerifyChain(chain').status = "COMPROMISED"
               /\ VerifyChain(chain').compromised_block
                     = VerifyChain(chain).compromised_block]_vars

\* a block was appended behind a block whose hash had been overwritten, and
\* block 1 is still the one reported
AppendedBehindBrokenBlock ==
    /\ Len(chain) = 3
    /\ At(chain, 1).hash = Sha256(S("y"))
    /\ At(chain, 2).previous_hash = Sha256(S("y"))
    /\ VerifyChain(chain).status = "COMPROMISED"
    /\ VerifyChain(chain).compromised_block = 1

\* C27: generate_fir_report and generate_ecourt_compatible return a report
\* and do not raise for every case id at least one stored block has, the
\* genesis block's own case id on a fresh ledger included
ReportsForEveryStoredCase ==
    (/\ reader.op \in {"generate_fir_report", "generate_ecourt_compatible"}
     /\ Matching(chain, reader.case_id) # {}) =>
        /\ ~reader.raised
        /\ "error" \notin DOMAIN reader.value

(* ------------------------ DarkWebIntelligence -------------------------- *)
(* src/utils/dark_web_monitor.py.  A block of evidence_chain refers to the  *)
(* item dict of sample_dark_web_data it was made from: its evidence entry   *)
(* is kept as the position of that item.                                    *)

Ledgers == <<chain, calls, pc, frame, outcome, tampered, reader>>

\* d with d[k] = v
Put(d, k, v) == (k :> v) @@ d

\* keywords when scan_dark_web is called without an argument (line 97)
DefaultKeywords ==
    <<"agent", "india", "attack", "data", "sell", "buy", "leak", "government">>

\* the keyword lists scan_dark_web is called with
KeywordLists == {DefaultKeywords, <<"border">>, <<"leak">>}

\* kw in item["content"].lower(), for the five literal contents and the
\* keywords above: the keywords each content has as a substring
ContentKeywords ==
    <<{"agent", "india", "sell"}, {}, {"data", "sell"}, {"border"}, {}>>

\* float(item["price"].replace("$", "").replace(",", "")) of the literal prices
ParsePrice(price) ==
    IF price = S("$6,000") THEN 6000
    ELSE IF price = S("$15,000") THEN 15000
    ELSE 25000

\* whole hours between date_found and a clock reading of the model
HoursAgo(date_found) ==
    IF date_found = S("2026-11-02 00:00:00") THEN 48
    ELSE IF date_found = S("2026-11-03 00:00:00") THEN 24
    ELSE IF date_found = S("2026-11-03 12:00:00") THEN 12
    ELSE IF date_found = S("2026-11-03 18:00:00") THEN 6
    ELSE 3

\* _calculate_threat_score
CalculateThreatScore(item) ==
    LET level == IF item.threat_level = S("CRITICAL") THEN 90
                 ELSE IF item.threat_level = S("HIGH") THEN 70
                 ELSE IF item.threat_level = S("MEDIUM") THEN 50
                 ELSE IF item.threat_level = S("LOW") THEN 30 ELSE 0
        price == IF item.price = S("N/A") THEN 0
                 ELSE IF ParsePrice(item.price) > 10000 THEN 20
                 ELSE IF ParsePrice(item.price) > 5000 THEN 15
                 ELSE IF ParsePrice(item.price) > 1000 THEN 10 ELSE 0
        recency == IF HoursAgo(item.date_found) < 24 THEN 20
                   ELSE IF HoursAgo(item.date_found) < 72 THEN 10 ELSE 0
        mentions == IF Len(item.agent_mentions) > 0 THEN 15 ELSE 0
        score == level + price + recency + mentions
    IN  IF score < 100 THEN score ELSE 100

\* _create_evidence_hash: sha256 of json.dumps(item, sort_keys=True, default=str)
CreateEvidenceHash(item) == Sha256(JsonDumps(item))

\* the block _add_to_blockchain appends for the item at position i, read
\* from the clock at t
DarkBlock(ec, data, i, t) ==
    [timestamp |-> IsoFormat(t),
     evidence |-> i,
     previous_hash |-> IF ec # <<>> THEN ec[Len(ec)].hash ELSE S("0"),
     hash |-> CreateEvidenceHash(data[i])]

\* found with item at position i put behind every item whose threat_score is
\* not smaller: sorted(..., reverse=True) keeps equal items in their order
RECURSIVE InsertByScore(_, _)
InsertByScore(found, item) ==
    IF found = <<>> THEN <<item>>
    ELSE IF Head(found).threat_score >= item.threat_score
         THEN <<Head(found)>> \o InsertByScore(Tail(found), item)
         ELSE <<item>> \o found

\* the loop of lines 101-116 from item i on: st holds sample_dark_web_data,
\* evidence_chain and the positions of the items found so far
RECURSIVE ScanItems(_, _, _, _)
ScanItems(st, i, keywords, t) ==
    IF i > Len(st.data) THEN st
    ELSE LET matches == SelectSeq(keywords, LAMBDA kw : kw \in ContentKeywords[i])
         IN  IF matches = <<>> THEN ScanItems(st, i + 1, keywords, t)
             ELSE LET scored == Put(Put(st.data[i], "threat_score",
                                        CalculateThreatScore(st.data[i])),
                                    "matched_keywords",
                                    [j \in 1..Len(matches) |-> S(matches[j])])
                      item == Put(scored, "hash", CreateEvidenceHash(scored))
                      data == [st.data EXCEPT ![i] = item]
                  IN  ScanItems([data |-> data,
                                 ec |-> Append(st.ec, DarkBlock(st.ec, data, i, t)),
                                 found |-> Append(st.found, i)],
                                i + 1, keywords, t)

\* what scan_dark_web returns: the found items, highest threat_score first
RECURSIVE SortedFound(_, _)
SortedFound(data, found) ==
    IF found = <<>> THEN <<>>
    ELSE InsertByScore(SortedFound(data, SubSeq(found, 1, Len(found) - 1)),
                       data[found[Len(found)]])

\* block_copy of lines 352-353: a copy of the block without its hash entry;
\* its evidence is the item dict as it is now
BlockCopy(block, data) ==
    [timestamp |-> block.timestamp,
     evidence |-> data[block.evidence],
     previous_hash |-> block.previous_hash]

\* lines 347-356 for the block at list position i (0-based)
DarkBlockVerifies(ec, data, i) ==
    IF ec[i + 1].previous_hash # ec[i].hash THEN FALSE
    ELSE IF ec[i + 1].hash # CreateEvidenceHash(BlockCopy(ec[i + 1], data)) THEN FALSE
    ELSE TRUE

\* _verify_blockchain
VerifyBlockchain(ec, data) ==
    IF Len(ec) < 2 THEN TRUE
    ELSE \A i \in 1..(Len(ec) - 1) : DarkBlockVerifies(ec, data, i)

\* scan_dark_web(keywords), all its readings of the clock being t
ScanDarkWebCall(keywords, t) ==
    /\ Len(evidence_chain) < DarkMaxBlocks
    /\ now <= t /\ t <= MaxTime
    /\ LET st == ScanItems([data |-> sample_dark_web_data, ec |-> evidence_chain,
                            found |-> <<>>], 1, keywords, t)
       IN  /\ sample_dark_web_data' = st.data
           /\ evidence_chain' = st.ec
           /\ returned' = [op |-> "scan_dark_web",
                           value |-> SortedFound(st.data, st.found)]
    /\ now' = t
    /\ UNCHANGED <<Ledgers, alerts>>

\* _verify_blockchain() called on the object
VerifyBlockchainCall ==
    /\ returned' = [op |-> "_verify_blockchain",
                    value |-> VerifyBlockchain(evidence_chain, sample_dark_web_data)]
    /\ UNCHANGED <<Ledgers, now, alerts, sample_dark_web_data, evidence_chain>>

\* generate_intelligence_report: scan_dark_web() with the default keywords,
\* then the report; of the report the blockchain_evidence entry is carried
GenerateIntelligenceReportCall(t) ==
    /\ Len(evidence_chain) < DarkMaxBlocks
    /\ now <= t /\ t <= MaxTime
    /\ LET st == ScanItems([data |-> sample_dark_web_data, ec |-> evidence_chain,
                            found |-> <<>>], 1, DefaultKeywords, t)
       IN  /\ sample_dark_web_data' = st.data
           /\ evidence_chain' = st.ec
           /\ returned' =
                [op |-> "generate_intelligence_report",
                 value |->
                    [blockchain_evidence |->
                        [blocks_in_chain |-> Len(st.ec),
                         last_block_hash |-> IF st.ec # <<>> THEN st.ec[Len(st.ec)].hash
                                             ELSE S("None"),
                         chain_integrity |-> IF VerifyBlockchain(st.ec, st.data)
                                             THEN "VERIFIED" ELSE "COMPROMISED"]]]
    /\ now' = t
    /\ UNCHANGED <<Ledgers, alerts>>

\* scans, reports and verifications of one DarkWebIntelligence object
NextDark ==
    \/ \E keywords \in KeywordLists, t \in 0..MaxTime : ScanDarkWebCall(keywords, t)
    \/ VerifyBlockchainCall
    \/ \E t \in 0..MaxTime : GenerateIntelligenceReportCall(t)

SpecDark == Init /\ [][NextDark]_vars

\* C29: after any number of scan_dark_web calls and no tampering,
\* _verify_blockchain() returns True and generate_intelligence_report
\* reports chain_integrity VERIFIED
DarkChainVerifies ==
    /\ returned.op = "_verify_blockchain" => returned.value = TRUE
    /\ returned.op = "generate_intelligence_report" =>
          returned.value.blockchain_evidence.chain_integrity = "VERIFIED"

(* ----------------------------- AlertSystem ------------------------------ *)
(* src/utils/alerts.py                                                      *)

\* the number of alerts generate_alert keeps (lines 30-31)
KeepLast == 100

\* datetime.now().strftime('%Y-%m-%d %H:%M:%S') read from the clock at t:
\* the instants of the model lie within one second
StrfSeconds(t) == S("2026-11-04 00:00:00")

\* the alert ids acknowledge_alert is called with
AckIds == {1, KeepLast + 1}

\* the details generate_alert is called with
AlertDetails == {None, EmptyDict}

\* alerts[-100:] of a list longer than 100
LastAlerts(a) ==
    IF Len(a) > KeepLast THEN SubSeq(a, Len(a) - KeepLast + 1, Len(a)) ELSE a

\* the list positions holding an alert of this id
AlertsWithId(a, alert_id) == {i \in 1..Len(a) : a[i].id = alert_id}

\* generate_alert(alert_type, message, severity, details)
GenerateAlert(alert_type, message, severity, details) ==
    LET alert == [id |-> Len(alerts) + 1,
                  timestamp |-> StrfSeconds(now),
                  type |-> alert_type,
                  message |-> message,
                  severity |-> severity,
                  details |-> IF details = None THEN EmptyDict ELSE details,
                  acknowledged |-> FALSE,
                  active |-> TRUE]
    IN  /\ alerts' = LastAlerts(Append(alerts, alert))
        /\ returned' = [op |-> "generate_alert", value |-> alert]
        /\ UNCHANGED <<Ledgers, now, sample_dark_web_data, evidence_chain>>

\* acknowledge_alert(alert_id): the first alert of this id in list order
AcknowledgeAlert(alert_id) ==
    LET found == AlertsWithId(alerts, alert_id)
        first == CHOOSE i \in found : \A j \in found : i <= j
    IN  /\ alerts' = IF found = {} THEN alerts
                     ELSE [alerts EXCEPT ![first].acknowledged = TRUE,
                                         ![first].active = FALSE]
        /\ returned' = [op |-> "acknowledge_alert", alert_id |-> alert_id]
        /\ UNCHANGED <<Ledgers, now, sample_dark_web_data, evidence_chain>>

\* calls on one AlertSystem object
NextAlerts ==
    \/ \E details \in AlertDetails :
          GenerateAlert(S("FAKE_ACCOUNT"),
                        S("Potential impersonation/fake account detected"),
                        S("MEDIUM"), details)
    \/ \E alert_id \in AckIds : AcknowledgeAlert(alert_id)

SpecAlerts == Init /\ [][NextAlerts]_vars

\* C30: no two stored alerts have the same id, and acknowledge_alert(id)
\* leaves no stored alert of that id unacknowledged
AlertIdsUnique ==
    /\ \A i, j \in 1..Len(alerts) : alerts[i].id = alerts[j].id => i = j
    /\ returned.op = "acknowledge_alert" =>
          \A i \in AlertsWithId(alerts, returned.alert_id) : alerts[i].acknowledged

====
